---- MODULE Spec2Model ----
(***************************************************************************)
(* A model of the scraper service: the /scrape and /scrape_url handlers of *)
(* main.py, the site-specific strategy AccupassScraper.scrape, the generic *)
(* strategy GenericScraper.scrape and the helpers of ScraperBase.           *)
(*                                                                         *)
(* One request is followed from the handler's first line to its response.  *)
(* The world it runs against is fixed in the initial state: the request,   *)
(* the page (the measurements its scroll loop will read) and the DOM (the  *)
(* cards extraction will find).  Failures of browser operations and        *)
(* cancellation are chosen step by step.                                   *)
(*                                                                         *)
(* Strings the code looks into (urls, hrefs, query strings) are sequences  *)
(* of one-character strings; strings it only compares or passes on (site   *)
(* ids, selectors, element texts, messages) are TLA+ strings.              *)
(***************************************************************************)
EXTENDS Integers, Sequences, FiniteSets, TLC

VARIABLES
    req,            \* the request body as sent: endpoint, site, url, params
    request_url,    \* request.url, which the handler may assign (main.py:199-201)
    page,           \* the page served: its measurement script
    dom,            \* the cards query_selector_all finds after the loop
    metas,          \* the meta tags of the page, in document order
    pc,             \* position of the request's task
    available_sites,\* main.py:177, NotLoaded until the handler has read the config
    config_reads,   \* the times this request has opened the configuration file
    strategy,       \* class of the object bound to `scraper`
    site_config,    \* the scraper instance's site_config
    called,         \* the strategies whose scrape() was invoked, in order
    target_url,     \* the url handed to page.goto
    playwright,     \* the async_playwright() context: "none", "started", "stopped"
    browser,        \* the local `browser`: its index in browsers, 0 while unbound
    browsers,       \* the browsers launched so far: who launched each, and
                    \* whether it is "open", "closed" or "stopped"
    launches,       \* number of chromium.launch calls that returned a browser
    closeCalls,     \* number of browser.close() calls
    gotos,          \* number of page.goto calls
    card_selector,  \* accupass_scraper.py:42
    last,           \* last_count / last_height
    same,           \* consecutive_same_count
    scroll_count,   \* scroll_count
    candidate,      \* the load-more selector being tried, by its place in the
                    \* list; 0 outside the try block of the unchanged branch
    clicks,         \* the click() calls that returned since the last
                    \* measurement of the running loop
    events,         \* accupass_scraper.py:94
    idx,            \* number of cards (generic: meta tags) the extraction loop
                    \* has gone through
    metadata,       \* generic_scraper.py:126
    results,        \* what scrape() returns, main.py:204
    err,            \* the exception in flight, NoErr when there is none
    resp,           \* the HTTP response, NoResp until the handler answers
    me,             \* the call whose coroutine is running
    other           \* the suspended coroutine's frame; << >> when there is one call

vars == << req, request_url, page, dom, metas, pc, available_sites, config_reads, strategy,
           site_config, called,
           target_url, playwright, browser, browsers, launches, closeCalls, gotos,
           card_selector, last, same, scroll_count, candidate, clicks, events, idx,
           metadata, results, err, resp, me, other >>

----------------------------------------------------------------------------
(* Bounds of the model *)

\* longest measurement script drawn over Measures
MaxScript == 3
\* scrolls after which the model stops following a loop that has not exited
MaxScroll == 12
\* most cards in a DOM built from the sample cards
MaxCards == 3
\* most meta tags in a list built from the sample tags
MaxMetas == 3

----------------------------------------------------------------------------
(* Python values *)

\* None, kept apart from every string: no string has a character "None"
None == << "None" >>

\* None where a dict is expected (params), shaped like the dicts of the
\* model, which are sequences of <<key, value>> pairs
NoneDict == << << None, None >> >>

\* bool(v) for an Optional[str]
Truthy(v) == v # None /\ v # << >>

\* bool(d) for an Optional[dict]
TruthyDict(d) == d # NoneDict /\ d # << >>

\* d.get(k, default) on a dict modelled as a function
Get(d, k, default) == IF k \in DOMAIN d THEN d[k] ELSE default

\* the empty dict
EmptyDict == [k \in {} |-> None]

RECURSIVE Contains(_, _)
\* c in s
Contains(s, c) ==
    IF s = << >> THEN FALSE
    ELSE IF Head(s) = c THEN TRUE ELSE Contains(Tail(s), c)

\* s.startswith(p)
StartsWith(s, p) == Len(s) >= Len(p) /\ SubSeq(s, 1, Len(p)) = p

RECURSIVE LStrip(_, _)
\* s.lstrip(c)
LStrip(s, c) ==
    IF s # << >> /\ Head(s) = c THEN LStrip(Tail(s), c) ELSE s

RECURSIVE urlencode(_)
\* urllib.parse.urlencode of a dict kept as a sequence of <<key, value>>
\* pairs in insertion order; keys and values are drawn from characters
\* that urlencode leaves as they are
urlencode(params) ==
    IF params = << >> THEN << >>
    ELSE LET kv == Head(params)[1] \o << "=" >> \o Head(params)[2]
         IN  IF Tail(params) = << >> THEN kv
             ELSE kv \o << "&" >> \o urlencode(Tail(params))

RECURSIVE DictUpdate(_, _)
\* d.update(e) on dicts kept as sequences of pairs: a key of e that d has
\* keeps its place and takes e's value, a new key is appended
DictUpdate(d, e) ==
    IF e = << >> THEN d
    ELSE LET k == Head(e)[1]
             v == Head(e)[2]
             hit == {i \in 1..Len(d) : d[i][1] = k}
             d1 == IF hit = {} THEN Append(d, << k, v >>)
                   ELSE [i \in 1..Len(d) |-> IF i \in hit THEN << k, v >> ELSE d[i]]
         IN  DictUpdate(d1, Tail(e))

\* index of the last "/" of s, 0 when it has none
LastSlash(s) ==
    LET at == {i \in 1..Len(s) : s[i] = "/"}
    IN  IF at = {} THEN 0 ELSE CHOOSE i \in at : \A j \in at : j <= i

\* index of the first character after "scheme://", 0 when s has no scheme
AfterScheme(s) ==
    LET at == {i \in 1..(Len(s) - 2) : SubSeq(s, i, i + 2) = << ":", "/", "/" >>}
    IN  IF at = {} THEN 0 ELSE (CHOOSE i \in at : \A j \in at : i <= j) + 3

\* urllib.parse.urljoin(base, rel) for the relative references build_url
\* passes: a path without a leading "/" and without dot segments
urljoin(base, rel) ==
    IF base = << >> THEN rel
    ELSE IF rel = << >> THEN base
    ELSE IF AfterScheme(rel) # 0 THEN rel
    ELSE IF AfterScheme(base) # 0 /\ LastSlash(base) < AfterScheme(base)
         THEN base \o << "/" >> \o rel
    ELSE IF LastSlash(base) = 0 THEN rel
    ELSE SubSeq(base, 1, LastSlash(base)) \o rel

----------------------------------------------------------------------------
(* The configuration file config.yaml, read by ScraperBase._load_config *)

Http == << "h", "t", "t", "p", ":", "/", "/" >>

\* the selector lists of a card-based site; a selector given as a bare
\* string is the one-element list get_selector makes of it
AccupassSelectors ==
    [ card     |-> << "c1", "c2" >>,
      link     |-> << "l1", "l2" >>,
      title    |-> << "t1", "t2" >>,
      time     |-> << "m1", "m2" >>,
      location |-> << "o1" >> ]

\* config['sites']: a site with an extraction module, sites without one
\* (with and without base_url and search_path), and a site whose id names
\* the module generic_scraper
Sites ==
    [ accupass |-> [ base_url       |-> Http \o << "a" >>,
                     search_path    |-> << "/", "s" >>,
                     default_params |-> << << << "p" >>, << "f" >> >> >>,
                     selectors      |-> AccupassSelectors ],
      kktix    |-> [ base_url    |-> Http \o << "k" >>,
                     search_path |-> << "/", "e" >> ],
      plain    |-> [ base_url |-> Http \o << "p" >> ],
      nobase   |-> [ search_path |-> << "/", "e" >> ],
      generic  |-> [ base_url |-> Http \o << "g" >> ] ]

Config == [ default |-> EmptyDict, sites |-> Sites ]

\* scraper_base.py:62-64: the configured number of retries, 3 by default
get_retry_count(config) == Get(config.default, "retry_count", 3)

\* the modules of the repository that __import__(f"{site}_scraper") can
\* find, with the classes each defines
Modules ==
    [ accupass_scraper |-> { "AccupassScraper" },
      generic_scraper  |-> { "GenericScraper" } ]

\* str.capitalize() on the site ids of the model
Capitalize(site) ==
    CASE site = "accupass" -> "Accupass"
      [] site = "kktix"    -> "Kktix"
      [] site = "plain"    -> "Plain"
      [] site = "nobase"   -> "Nobase"
      [] site = "generic"  -> "Generic"
      [] OTHER             -> "Other"

\* main.py:183-187: the import and the getattr both succeed
ImportOK(site) ==
    LET module_name == site \o "_scraper"
    IN  /\ module_name \in DOMAIN Modules
        /\ (Capitalize(site) \o "Scraper") \in Modules[module_name]

\* the site_name each scraper class passes to ScraperBase.__init__
SiteNameOf(class) == IF class = "AccupassScraper" THEN "accupass" ELSE "default"

\* ScraperBase.__init__: self.site_config
LoadSiteConfig(class) == Get(Config.sites, SiteNameOf(class), EmptyDict)

\* ScraperBase.get_selector
get_selector(cfg, selector_type) ==
    Get(Get(cfg, "selectors", EmptyDict), selector_type, << >>)

\* ScraperBase.get_base_url
get_base_url(cfg) == Get(cfg, "base_url", << >>)

\* ScraperBase.get_default_params
get_default_params(cfg) == Get(cfg, "default_params", << >>)

\* the default parameters alone: the params of the request left out
build_url_params_defaults(cfg, params) == get_default_params(cfg)

\* ScraperBase.build_url: the dict get_default_params returns is the one
\* held by site_config, and update() changes it in place
build_url_params(cfg, params) ==
    IF TruthyDict(params) THEN DictUpdate(get_default_params(cfg), params)
    ELSE get_default_params(cfg)

\* ScraperBase.build_url: the url returned
build_url(cfg, path, params) ==
    LET url == urljoin(get_base_url(cfg), LStrip(path, "/"))
        all_params == build_url_params(cfg, params)
    IN  IF all_params # << >> THEN url \o << "?" >> \o urlencode(all_params)
        ELSE url

\* ScraperBase.build_url: site_config after the call
build_url_config(cfg, params) ==
    IF "default_params" \in DOMAIN cfg
    THEN [cfg EXCEPT !["default_params"] = build_url_params(cfg, params)]
    ELSE cfg

\* generic_scraper.py:28-31: the url with the params appended
GenericTarget(url, params) ==
    IF TruthyDict(params)
    THEN url \o (IF Contains(url, "?") THEN << "&" >> ELSE << "?" >>)
             \o urlencode(params)
    ELSE url

----------------------------------------------------------------------------
(* The scroll loop, accupass_scraper.py:54-91 and generic_scraper.py:51-97 *)

\* max_consecutive_same
max_consecutive_same == 5

\* a first value for the last measurement that no reading can equal
InitialLast_sentinel == 0 - 1

\* last_count = 0, last_height = 0
InitialLast == 0

\* the measurement the i-th evaluate of the loop returns on page pg: the
\* script is read in order; after its end a cyclic page starts over and
\* any other page stays at its last value
Measure(pg, i) ==
    IF i <= Len(pg.script) THEN pg.script[i]
    ELSE IF pg.cyclic THEN pg.script[((i - 1) % Len(pg.script)) + 1]
    ELSE pg.script[Len(pg.script)]

\* the counter as a differing reading leaves it, were readings counted
\* instead of comparisons
NextSame_readings(current, previous, counter) ==
    IF current = previous THEN counter + 1 ELSE 1

\* the counter reset by growth only: a smaller reading counts as unchanged
NextSame_growth(current, previous, counter) ==
    IF current > previous THEN 0 ELSE counter + 1

\* the counter left as it is by a differing reading
NextSame_kept(current, previous, counter) ==
    IF current = previous THEN counter + 1 ELSE counter

\* lines 70-71 and 87-88: consecutive_same_count after one measurement
NextSame(current, previous, counter) ==
    IF current = previous THEN counter + 1 ELSE 0

\* the test of line 84 with an iteration cap added to it
ThresholdReached_capped(counter, n) ==
    counter >= max_consecutive_same \/ n >= 2 * max_consecutive_same

\* line 84 (generic: line 90): the test that ends the loop
ThresholdReached(counter, n) == counter >= max_consecutive_same

RECURSIVE IterationsToExit(_, _, _, _)
\* the loop of lines 59-91 as a function of the page: the iteration at
\* which it breaks, having done n iterations with the locals previous and
\* counter; 0 when it has not broken after MaxScroll iterations
IterationsToExit(pg, n, previous, counter) ==
    IF n >= MaxScroll THEN 0
    ELSE LET current == Measure(pg, n + 1)
             c       == NextSame(current, previous, counter)
         IN  IF current = previous /\ ThresholdReached(c, n + 1) THEN n + 1
             ELSE IterationsToExit(pg, n + 1, current, c)

----------------------------------------------------------------------------
(* Extraction of one card, accupass_scraper.py:99-135 *)

\* inner_text() of the element a selector finds in a card
Text(selector) == "text of " \o selector

\* first selector of the chain that finds an element in the card, 0 if none
FirstMatch(chain, card) ==
    LET hit == {i \in 1..Len(chain) : chain[i] \in card.has}
    IN  IF hit = {} THEN 0 ELSE CHOOSE i \in hit : \A j \in hit : i <= j

\* lines 107-112, 115-120, 123-128: sentinel, then the first match's text
FieldValue(chain, card, sentinel) ==
    IF FirstMatch(chain, card) = 0 THEN sentinel
    ELSE Text(chain[FirstMatch(chain, card)])

\* lines 101-104: only the first link selector is queried; the href is
\* prefixed with the base url unless it is empty or starts with "http"
LinkValue(cfg, card) ==
    LET link_elem  == get_selector(cfg, "link")[1] \in card.has
        event_link == IF link_elem THEN card.href ELSE << >>
    IN  IF Truthy(event_link) /\ ~StartsWith(event_link, << "h", "t", "t", "p" >>)
        THEN get_base_url(cfg) \o event_link
        ELSE event_link

\* inner_text() called on whatever the location chain found, None included:
\* a card without a location element raises
CardRaises_missing(cfg, card) ==
    \/ card.raises # "none"
    \/ get_selector(cfg, "link") = << >>
    \/ \A i \in 1..Len(get_selector(cfg, "location")) :
           get_selector(cfg, "location")[i] \notin card.has

\* an operation on the card raises: a locator or attribute read that
\* fails, or the IndexError of line 101 when the link chain is empty
CardRaises(cfg, card) ==
    card.raises # "none" \/ get_selector(cfg, "link") = << >>

\* lines 130-135: the record appended for a card that does not raise
ExtractRecord(cfg, card) ==
    [ title    |-> FieldValue(get_selector(cfg, "title"), card, "unknown title"),
      link     |-> LinkValue(cfg, card),
      time     |-> FieldValue(get_selector(cfg, "time"), card, "unknown time"),
      location |-> FieldValue(get_selector(cfg, "location"), card,
                              "unknown location") ]

\* the extraction loop with the handler of line 137 around the loop
\* instead of inside it: the first card that raises ends the batch
AfterCard_abort(cfg, cards, evs, i) ==
    IF CardRaises(cfg, cards[i + 1])
    THEN [ events |-> evs, idx |-> Len(cards) ]
    ELSE [ events |-> Append(evs, ExtractRecord(cfg, cards[i + 1])), idx |-> i + 1 ]

\* lines 98-138: one pass of the extraction loop, on card i + 1
AfterCard(cfg, cards, evs, i) ==
    IF CardRaises(cfg, cards[i + 1])
    THEN [ events |-> evs, idx |-> i + 1 ]
    ELSE [ events |-> Append(evs, ExtractRecord(cfg, cards[i + 1])), idx |-> i + 1 ]

----------------------------------------------------------------------------
(* The inputs *)

Measures == { 0, 1, 2 }

\* a read of the tag's attributes raises: name is read first, property
\* only when name is None or empty, content last (lines 133-134)
MetaRaises(tag) ==
    \/ tag.raises = "name"
    \/ tag.raises = "property" /\ ~Truthy(tag.name)
    \/ tag.raises = "content"

\* the key kept once it is set: a later tag with the same key is passed over
AfterMeta_first(md, tag) ==
    LET name == IF Truthy(tag.name) THEN tag.name ELSE tag.property
    IN  IF MetaRaises(tag) THEN md
        ELSE IF Truthy(name) /\ Truthy(tag.content)
                /\ \A j \in 1..Len(md) : md[j][1] # name
             THEN DictUpdate(md, << << name, tag.content >> >>)
        ELSE md

\* generic_scraper.py:132-139: one pass of the loop over the meta tags
AfterMeta(md, tag) ==
    LET name == IF Truthy(tag.name) THEN tag.name ELSE tag.property
    IN  IF MetaRaises(tag) THEN md
        ELSE IF Truthy(name) /\ Truthy(tag.content)
             THEN DictUpdate(md, << << name, tag.content >> >>)
        ELSE md

RECURSIVE SeqsUpTo(_, _)
\* the sequences over S of length 0..n
SeqsUpTo(S, n) ==
    IF n = 0 THEN { << >> }
    ELSE LET shorter == SeqsUpTo(S, n - 1)
         IN  shorter \cup { Append(q, x) : q \in { r \in shorter : Len(r) = n - 1 },
                                            x \in S }

\* the measurement sequence of the loader-termination property
PlateauScript == << 5, 9, 9, 9, 9, 12, 12, 12, 12, 12 >>

Scripts == (SeqsUpTo(Measures, MaxScript) \ { << >> }) \cup { PlateauScript }

Pages == [ script : Scripts, cyclic : BOOLEAN ]

BasePage == [ script |-> << 1 >>, cyclic |-> FALSE ]

FieldSelectors == { "l1", "l2", "t1", "t2", "m1", "m2", "o1" }

\* get_attribute('href'): absent, empty, relative, absolute
Hrefs == { None, << >>, << "/", "e" >>, Http \o << "y" >> }

Cards == [ has : SUBSET FieldSelectors, href : Hrefs, raises : { "none", "title" } ]

GoodCard == [ has |-> { "l1", "t1", "m1", "o1" }, href |-> << "/", "e" >>,
              raises |-> "none" ]

SampleCards ==
    { GoodCard,
      [ has |-> { "l1", "t2" }, href |-> Http \o << "y" >>, raises |-> "none" ],
      [ has |-> { "l1", "t1", "m1", "o1" }, href |-> << "/", "e" >>, raises |-> "link" ],
      [ has |-> { "t1" }, href |-> None, raises |-> "location" ] }

BaseDom == << GoodCard >>

Doms == { << c >> : c \in Cards } \cup SeqsUpTo(SampleCards, MaxCards)

SiteIds == (DOMAIN Sites) \cup { "other" }

Urls == { None, << >>, Http \o << "u" >>, Http \o << "u", "?", "x" >> }

ParamSets == { NoneDict, << >>, << << << "q" >>, << "a" >> >> >>,
               << << << "p" >>, << "x" >> >> >> }

\* GET /sites, which has no body
SitesRequest ==
    [ endpoint |-> "/sites", site |-> "none", url |-> None, params |-> NoneDict ]

\* POST /scrape bodies, POST /scrape_url bodies (url is a required str) and
\* GET /sites
Requests ==
    [ endpoint : { "/scrape" }, site : SiteIds, url : Urls, params : ParamSets ]
    \cup [ endpoint : { "/scrape_url" }, site : { "none" }, url : Urls \ { None },
           params : ParamSets ]
    \cup { SitesRequest }

CardRequest ==
    [ endpoint |-> "/scrape", site |-> "accupass", url |-> None, params |-> NoneDict ]

PageRequest ==
    [ endpoint |-> "/scrape_url", site |-> "none", url |-> Http \o << "u" >>,
      params |-> NoneDict ]

----------------------------------------------------------------------------
(* Exceptions and responses *)

NoErr == [ type |-> "none", msg |-> "" ]

NoResp == [ code |-> 0, status |-> "", message |-> "", data |-> << >> ]

\* the types a failing browser operation raises with; all are subclasses
\* of Exception
ExcTypes == { "ImportError", "AttributeError", "TimeoutError" }

\* an exception of a type with str(e) = msg
Exc(type, msg) == [ type |-> type, msg |-> msg ]

\* the exception a failing operation raises; its text names the operation
Raised(type, where) == Exc(type, type \o " at " \o where)

\* asyncio.CancelledError: a BaseException, not an Exception
Cancelled(where) == Raised("CancelledError", where)

\* a 500 answered with a success body
ErrorResponse_success(e) ==
    [ code |-> 500, status |-> "success", message |-> "error", data |-> << >> ]

\* main.py:223-232 and 303-312
ErrorResponse(e) ==
    [ code |-> 500, status |-> "error", message |-> e.msg, data |-> << >> ]

\* main.py:209-218 and 292-301
SuccessResponse(request, res) ==
    [ code    |-> 200,
      status  |-> "success",
      message |-> IF request.endpoint = "/scrape"
                  THEN "scraped " \o request.site \o ": " \o ToString(Len(res))
                  ELSE "scraped the page",
      data    |-> res ]

\* scraper_base.py:33-34: the exception _load_config raises
ConfigError == Exc("Exception", "loading the configuration file failed")

\* main.py:180, re-raised at 220-222
RejectResponse(request) ==
    [ code |-> 400, status |-> "", message |-> "unsupported site: " \o request.site,
      data |-> << >> ]

\* list(scraper.config['sites'].keys()): the site ids in the order of the file
SiteList == << "accupass", "kktix", "plain", "nobase", "generic" >>

\* main.py:331-334
SitesResponse ==
    [ code |-> 200, status |-> "", message |-> "", data |-> SiteList ]

\* the inner try with the scrape call inside it
InnerTryCovers_call(stmt) == stmt \in { "import", "scrape" }

\* main.py:184-189: the statements the inner try covers
InnerTryCovers(stmt) == stmt = "import"

\* the fallback with the search path left out
FallbackUrl_base(url, entry) ==
    IF ~Truthy(url) /\ Get(entry, "base_url", << >>) # << >>
    THEN Get(entry, "base_url", << >>)
    ELSE url

\* main.py:193-201: request.url after the fallback to the generic scraper
FallbackUrl(url, entry) ==
    LET base_url    == Get(entry, "base_url", << >>)
        search_path == Get(entry, "search_path", << >>)
    IN  IF ~Truthy(url) /\ base_url # << >>
        THEN IF search_path # << >> THEN base_url \o search_path ELSE base_url
        ELSE url

----------------------------------------------------------------------------
(* The initial states *)

\* every request against the base page and DOM; every page under one
\* request of each strategy; every DOM under the card request
\* get_attribute() of a meta tag: absent, empty, or a value
MetaNames      == { None, << >>, << "a" >> }
MetaProperties == { None, << >>, << "a" >>, << "b" >> }
MetaContents   == { None, << >>, << "x" >>, << "y" >> }

\* a meta tag: its three attributes, and the attribute whose read raises
MetaTags ==
    [ name : MetaNames, property : MetaProperties, content : MetaContents,
      raises : { "none", "name", "property", "content" } ]

SampleMetas ==
    { [ name |-> << "a" >>, property |-> None, content |-> << "x" >>, raises |-> "none" ],
      [ name |-> << >>, property |-> << "a" >>, content |-> << "y" >>, raises |-> "none" ],
      [ name |-> << "b" >>, property |-> << "a" >>, content |-> << "x" >>, raises |-> "content" ],
      [ name |-> None, property |-> << "b" >>, content |-> << >>, raises |-> "none" ] }

BaseMetas ==
    << [ name |-> << "a" >>, property |-> None, content |-> << "x" >>, raises |-> "none" ] >>

\* the lists of meta tags: every one and every two tags, and the lists of
\* up to MaxMetas sample tags
MetaLists ==
    { << t >> : t \in MetaTags } \cup { << t, u >> : t, u \in MetaTags }
    \cup SeqsUpTo(SampleMetas, MaxMetas)

Worlds ==
    (Requests \X { BasePage } \X { BaseDom })
    \cup ({ CardRequest, PageRequest } \X Pages \X { BaseDom })
    \cup ({ CardRequest } \X { BasePage } \X Doms)

Init ==
    /\ \E w \in Worlds : req = w[1] /\ page = w[2] /\ dom = w[3]
    /\ metas = BaseMetas
    /\ request_url = req.url
    /\ pc = CASE req.endpoint = "/scrape"     -> "h_start"
              [] req.endpoint = "/scrape_url" -> "h_generic"
              [] req.endpoint = "/sites"      -> "h_sites"
    /\ available_sites = [ loaded |-> FALSE, keys |-> {} ]
    /\ config_reads = 0
    /\ strategy = "none"
    /\ site_config = EmptyDict
    /\ called = << >>
    /\ target_url = None
    /\ playwright = "none"
    /\ browser = 0
    /\ browsers = << >>
    /\ launches = 0
    /\ closeCalls = 0
    /\ gotos = 0
    /\ card_selector = ""
    /\ last = 0
    /\ same = 0
    /\ scroll_count = 0
    /\ candidate = 0
    /\ clicks = 0
    /\ events = << >>
    /\ idx = 0
    /\ metadata = << >>
    /\ results = << >>
    /\ err = NoErr
    /\ resp = NoResp
    /\ me = 1
    /\ other = << >>

----------------------------------------------------------------------------
(* The handlers of main.py *)

HandlerVars == << available_sites, strategy, site_config, called, resp >>
BrowserVars == << playwright, browser, browsers, launches, closeCalls, gotos >>
LoopVars    == << card_selector, last, same, scroll_count, candidate, clicks >>
ExtractVars == << events, idx, metadata, results >>
WorldVars   == << req, page, dom, metas >>
SchedVars   == << me, other >>

\* main.py:176-177: the handler reads the configuration
HandlerLoadConfig ==
    /\ pc = "h_start"
    /\ config_reads' = config_reads + 1
    /\ available_sites' = [ loaded |-> TRUE, keys |-> DOMAIN Config.sites ]
    /\ pc' = "h_check"
    /\ UNCHANGED << request_url, WorldVars, SchedVars, strategy, site_config, called, resp, target_url,
                    BrowserVars, LoopVars, ExtractVars, err >>

\* scraper_base.py:28-34: reading the configuration file fails, in the
\* handler (main.py:176) or in the constructor of the scraper (188, 191, 284)
ConfigLoadFails ==
    /\ pc \in { "h_start", "h_import", "h_generic" }
    /\ config_reads' = config_reads + 1
    /\ err' = ConfigError
    /\ pc' = "h_except"
    /\ UNCHANGED << request_url, WorldVars, SchedVars, HandlerVars, target_url, BrowserVars, LoopVars,
                    ExtractVars >>

\* main.py:179-180, 220-222: a site that is not in the configuration
RejectSite ==
    /\ pc = "h_check"
    /\ req.site \notin available_sites.keys
    /\ resp' = RejectResponse(req)
    /\ pc' = "done"
    /\ UNCHANGED << request_url, WorldVars, SchedVars, config_reads, available_sites, strategy, site_config, called,
                    target_url, BrowserVars, LoopVars, ExtractVars, err >>

\* main.py:179: a site that is in the configuration
AcceptSite ==
    /\ pc = "h_check"
    /\ req.site \in available_sites.keys
    /\ pc' = "h_import"
    /\ UNCHANGED << request_url, WorldVars, SchedVars, config_reads, HandlerVars, target_url, BrowserVars, LoopVars,
                    ExtractVars, err >>

\* main.py:183-188: the site's module and class are found and instantiated
ImportSpecific ==
    /\ pc = "h_import"
    /\ ImportOK(req.site)
    /\ strategy' = Capitalize(req.site) \o "Scraper"
    /\ config_reads' = config_reads + 1
    /\ site_config' = LoadSiteConfig(strategy')
    /\ pc' = "h_call"
    /\ UNCHANGED << request_url, WorldVars, SchedVars, available_sites, called, resp, target_url,
                    BrowserVars, LoopVars, ExtractVars, err >>

\* main.py:189-201: no module or no class; the generic scraper stands in
\* and request.url is filled from the site's entry
ImportFallback ==
    /\ pc = "h_import"
    /\ ~ImportOK(req.site)
    /\ strategy' = "GenericScraper"
    /\ config_reads' = config_reads + 1
    /\ site_config' = LoadSiteConfig(strategy')
    /\ request_url' = FallbackUrl(request_url, Get(Config.sites, req.site, EmptyDict))
    /\ pc' = "h_call"
    /\ UNCHANGED << WorldVars, SchedVars, available_sites, called, resp, target_url,
                    BrowserVars, LoopVars, ExtractVars, err >>

\* main.py:284: /scrape_url always takes the generic scraper
NewGeneric ==
    /\ pc = "h_generic"
    /\ strategy' = "GenericScraper"
    /\ config_reads' = config_reads + 1
    /\ site_config' = LoadSiteConfig(strategy')
    /\ pc' = "h_call"
    /\ UNCHANGED << request_url, WorldVars, SchedVars, available_sites, called, resp, target_url,
                    BrowserVars, LoopVars, ExtractVars, err >>

\* main.py:204 and 287: scraper.scrape(url=request.url, params=request.params)
CallScrape ==
    /\ pc = "h_call"
    /\ called' = Append(called, strategy)
    /\ pc' = "s_entry"
    /\ UNCHANGED << request_url, WorldVars, SchedVars, config_reads, available_sites, strategy, site_config, resp,
                    target_url, BrowserVars, LoopVars, ExtractVars, err >>

\* main.py:209-218 and 292-301: scrape() returned
RespondSuccess ==
    /\ pc = "h_return"
    /\ resp' = SuccessResponse(req, results)
    /\ pc' = "done"
    /\ UNCHANGED << request_url, WorldVars, SchedVars, config_reads, available_sites, strategy, site_config, called,
                    target_url, BrowserVars, LoopVars, ExtractVars, err >>

\* main.py:189 and 223-232, 303-312: an Exception reaches the handler.  Were
\* the failing statement inside the inner try of /scrape, an ImportError or
\* AttributeError would be answered by the fallback of lines 190-201.
RespondError ==
    /\ pc = "h_except"
    /\ err.type # "CancelledError"
    /\ IF /\ req.endpoint = "/scrape"
          /\ err.type \in { "ImportError", "AttributeError" }
          /\ InnerTryCovers(IF called = << >> THEN "import" ELSE "scrape")
       THEN /\ strategy' = "GenericScraper"
            /\ config_reads' = config_reads + 1
            /\ site_config' = LoadSiteConfig(strategy')
            /\ request_url' = FallbackUrl(request_url,
                                           Get(Config.sites, req.site, EmptyDict))
            /\ err' = NoErr
            /\ pc' = "h_call"
            /\ UNCHANGED resp
       ELSE /\ resp' = ErrorResponse(err)
            /\ pc' = "done"
            /\ UNCHANGED << request_url, config_reads, strategy, site_config, err >>
    /\ UNCHANGED << WorldVars, SchedVars, available_sites, called, target_url, BrowserVars,
                    LoopVars, ExtractVars >>

\* main.py:328-334: GET /sites reads the configuration and lists its sites
GetAvailableSites ==
    /\ pc = "h_sites"
    /\ config_reads' = config_reads + 1
    /\ resp' = SitesResponse
    /\ pc' = "done"
    /\ UNCHANGED << request_url, WorldVars, SchedVars, available_sites, strategy, site_config,
                    called, target_url, BrowserVars, LoopVars, ExtractVars, err >>

\* main.py:330: reading the configuration fails; get_available_sites has no
\* try, the exception leaves the handler and the framework answers 500
GetAvailableSitesFails ==
    /\ pc = "h_sites"
    /\ config_reads' = config_reads + 1
    /\ err' = ConfigError
    /\ resp' = [ code |-> 500, status |-> "", message |-> "Internal Server Error",
                 data |-> << >> ]
    /\ pc' = "done"
    /\ UNCHANGED << request_url, WorldVars, SchedVars, available_sites, strategy, site_config,
                    called, target_url, BrowserVars, LoopVars, ExtractVars >>

\* a CancelledError is no Exception: neither except clause of the handler
\* takes it and the request ends without a response
PropagateCancel ==
    /\ pc = "h_except"
    /\ err.type = "CancelledError"
    /\ pc' = "done"
    /\ UNCHANGED << request_url, WorldVars, SchedVars, config_reads, HandlerVars, target_url, BrowserVars, LoopVars,
                    ExtractVars, err >>

----------------------------------------------------------------------------
(* scrape(): from the call to the browser, accupass_scraper.py:23-50 and  *)
(* generic_scraper.py:24-47                                                *)

\* accupass_scraper.py:24: url or build_url(site_config['search_path'], params)
AccupassEntry ==
    /\ pc = "s_entry"
    /\ strategy = "AccupassScraper"
    /\ IF Truthy(request_url)
       THEN /\ target_url' = request_url
            /\ pc' = "s_playwright"
            /\ UNCHANGED << site_config, err >>
       ELSE IF "search_path" \notin DOMAIN site_config
       THEN /\ err' = Exc("KeyError", "search_path")
            /\ pc' = "h_except"
            /\ UNCHANGED << site_config, target_url >>
       ELSE /\ target_url' = build_url(site_config, site_config.search_path,
                                       req.params)
            /\ site_config' = build_url_config(site_config, req.params)
            /\ pc' = "s_playwright"
            /\ UNCHANGED err
    /\ UNCHANGED << request_url, WorldVars, SchedVars, config_reads, available_sites, strategy, called, resp,
                    BrowserVars, LoopVars, ExtractVars >>

\* generic_scraper.py:24-25: no url
GenericNoUrl ==
    /\ pc = "s_entry"
    /\ strategy = "GenericScraper"
    /\ ~Truthy(request_url)
    /\ err' = Exc("ValueError", "a URL must be given")
    /\ pc' = "h_except"
    /\ UNCHANGED << request_url, WorldVars, SchedVars, config_reads, HandlerVars, target_url, BrowserVars, LoopVars,
                    ExtractVars >>

\* generic_scraper.py:27-33
GenericEntry ==
    /\ pc = "s_entry"
    /\ strategy = "GenericScraper"
    /\ Truthy(request_url)
    /\ target_url' = GenericTarget(request_url, req.params)
    /\ pc' = "s_playwright"
    /\ UNCHANGED << request_url, WorldVars, SchedVars, config_reads, HandlerVars, BrowserVars, LoopVars, ExtractVars,
                    err >>

\* async with async_playwright() as p: the context is entered
StartPlaywright ==
    /\ pc = "s_playwright"
    /\ playwright' = "started"
    /\ pc' = "s_launch"
    /\ UNCHANGED << request_url, WorldVars, SchedVars, config_reads, HandlerVars, target_url, browser, browsers, launches,
                    closeCalls, gotos, LoopVars, ExtractVars, err >>

\* browser = await p.chromium.launch(...)
Launch ==
    /\ pc = "s_launch"
    /\ browsers' = Append(browsers, [ owner |-> me, state |-> "open" ])
    /\ browser' = Len(browsers) + 1
    /\ launches' = launches + 1
    /\ pc' = "s_new_page"
    /\ UNCHANGED << request_url, WorldVars, SchedVars, config_reads, HandlerVars, target_url, playwright, closeCalls,
                    gotos, LoopVars, ExtractVars, err >>

\* page = await browser.new_page(), the last statement before the try
NewPage ==
    /\ pc = "s_new_page"
    /\ pc' = "s_viewport"
    /\ UNCHANGED << request_url, WorldVars, SchedVars, config_reads, HandlerVars, target_url, BrowserVars, LoopVars,
                    ExtractVars, err >>

\* await page.set_viewport_size(...)
SetViewport ==
    /\ pc = "s_viewport"
    /\ pc' = "s_goto"
    /\ UNCHANGED << request_url, WorldVars, SchedVars, config_reads, HandlerVars, target_url, BrowserVars, LoopVars,
                    ExtractVars, err >>

\* await page.goto(target_url, wait_until="networkidle")
Goto ==
    /\ pc = "s_goto"
    /\ gotos' = gotos + 1
    /\ pc' = "s_wait"
    /\ UNCHANGED << request_url, WorldVars, SchedVars, config_reads, HandlerVars, target_url, playwright, browser, browsers,
                    launches, closeCalls, LoopVars, ExtractVars, err >>

\* await page.wait_for_load_state("networkidle")
WaitLoad ==
    /\ pc = "s_wait"
    /\ pc' = "s_settle"
    /\ UNCHANGED << request_url, WorldVars, SchedVars, config_reads, HandlerVars, target_url, BrowserVars, LoopVars,
                    ExtractVars, err >>

\* the locals of the loop as lines 54-57 (generic: 51-54) set them
LoopStart ==
    /\ last' = InitialLast
    /\ same' = 0
    /\ scroll_count' = 0

\* await asyncio.sleep(2); the generic scraper goes on to its loop
Settle ==
    /\ pc = "s_settle"
    /\ IF strategy = "AccupassScraper"
       THEN pc' = "s_probe" /\ UNCHANGED << last, same, scroll_count >>
       ELSE pc' = "l_scroll" /\ LoopStart
    /\ UNCHANGED << request_url, WorldVars, SchedVars, config_reads, HandlerVars, target_url, BrowserVars,
                    card_selector, candidate, clicks, ExtractVars, err >>

\* accupass_scraper.py:42-47: the first card selector that finds an element
ProbeCardFound ==
    /\ pc = "s_probe"
    /\ \E matching \in SUBSET { get_selector(site_config, "card")[i] :
                                 i \in 1..Len(get_selector(site_config, "card")) } :
          /\ matching # {}
          /\ LET chain == get_selector(site_config, "card")
                 first == CHOOSE i \in 1..Len(chain) :
                            /\ chain[i] \in matching
                            /\ \A j \in 1..(i - 1) : chain[j] \notin matching
             IN  card_selector' = chain[first]
    /\ LoopStart
    /\ pc' = "l_scroll"
    /\ UNCHANGED << request_url, WorldVars, SchedVars, config_reads, HandlerVars, target_url, BrowserVars,
                    candidate, clicks, ExtractVars, err >>

\* the scroll loop entered although no card selector matched
NoCardSelector_loop == [ pc |-> "l_scroll", err |-> NoErr ]

\* the probe taken as passed when nothing matched: on to the extraction
NoCardSelector_empty == [ pc |-> "x_query", err |-> NoErr ]

\* accupass_scraper.py:49-50: if not card_selector: raise Exception(...)
NoCardSelector ==
    [ pc |-> "s_finally", err |-> Exc("Exception", "cannot find the event cards") ]

\* accupass_scraper.py:42-50: no card selector finds anything; card_selector
\* keeps the None of line 42
ProbeCardNone ==
    /\ pc = "s_probe"
    /\ card_selector' = "None"
    /\ err' = NoCardSelector.err
    /\ pc' = NoCardSelector.pc
    /\ UNCHANGED << request_url, WorldVars, SchedVars, config_reads, HandlerVars, target_url, BrowserVars,
                    last, same, scroll_count, candidate, clicks, ExtractVars >>

----------------------------------------------------------------------------
(* The scroll loop as steps *)

\* where the loop goes after the unchanged branch: lines 84-86 break out of
\* it, otherwise line 91 and the next iteration
AfterUnchanged ==
    IF ThresholdReached(same, scroll_count)
    THEN IF strategy = "AccupassScraper" THEN "x_query" ELSE "g_content"
    ELSE "l_scroll"

\* await page.evaluate("window.scrollTo(0, document.body.scrollHeight)")
Scroll ==
    /\ pc = "l_scroll"
    /\ scroll_count < MaxScroll
    /\ pc' = "l_sleep"
    /\ UNCHANGED << request_url, WorldVars, SchedVars, config_reads, HandlerVars, target_url, BrowserVars, LoopVars,
                    ExtractVars, err >>

\* await asyncio.sleep(3) (generic: 2)
ScrollSleep ==
    /\ pc = "l_sleep"
    /\ pc' = "l_measure"
    /\ UNCHANGED << request_url, WorldVars, SchedVars, config_reads, HandlerVars, target_url, BrowserVars, LoopVars,
                    ExtractVars, err >>

\* the selectors of the load-more controls in the order the loop tries them;
\* accupass_scraper.py:76 hands all of its three to one query_selector call,
\* generic_scraper.py:73-78 lists nine (the two has-text selectors with
\* Chinese text are named here by their place in the list)
load_more_selectors(class) ==
    IF class = "AccupassScraper"
    THEN << "button.load-more, .btn-load-more, a.more" >>
    ELSE << "button.load-more", ".btn-load-more", "a.more",
            "[class*=load-more]", "[class*=loadMore]",
            "button:has-text(6)", "button:has-text(7)",
            "button:has-text(Load more)", "a:has-text(Show more)" >>

\* the for loop going on to the selector after the clicked one
AfterClick_continue(class, tried) ==
    IF tried < Len(load_more_selectors(class)) THEN tried + 1 ELSE 0

\* generic_scraper.py:83-86 (accupass: 78-80): the selector tried after a
\* click on the control the tried one found; 0 for none, the break
AfterClick(class, tried) == 0

\* generic_scraper.py:80-82: the selector tried after one that found
\* nothing; 0 when the list is used up
AfterMiss(class, tried) ==
    IF tried < Len(load_more_selectors(class)) THEN tried + 1 ELSE 0

\* the end of the try block: the threshold test of lines 84-86
LeaveTry ==
    /\ pc' = AfterUnchanged
    /\ candidate' = 0
    /\ clicks' = IF ThresholdReached(same, scroll_count) THEN 0 ELSE clicks

\* lines 65-72: the measurement equals the last one
MeasureSame ==
    /\ pc = "l_measure"
    /\ Measure(page, scroll_count + 1) = last
    /\ scroll_count' = scroll_count + 1
    /\ same' = NextSame(Measure(page, scroll_count + 1), last, same)
    /\ candidate' = 1
    /\ clicks' = 0
    /\ pc' = "l_more"
    /\ UNCHANGED << request_url, WorldVars, SchedVars, config_reads, HandlerVars, target_url, BrowserVars,
                    card_selector, last, ExtractVars, err >>

\* lines 65-68 and 87-91: the measurement differs from the last one
MeasureChanged ==
    /\ pc = "l_measure"
    /\ Measure(page, scroll_count + 1) # last
    /\ scroll_count' = scroll_count + 1
    /\ same' = NextSame(Measure(page, scroll_count + 1), last, same)
    /\ last' = Measure(page, scroll_count + 1)
    /\ clicks' = 0
    /\ pc' = "l_scroll"
    /\ UNCHANGED << request_url, WorldVars, SchedVars, config_reads, HandlerVars, target_url, BrowserVars,
                    card_selector, candidate, ExtractVars, err >>

\* lines 76-77 (generic: 81-82): the selector tried finds a load-more control
MoreFound ==
    /\ pc = "l_more"
    /\ pc' = "l_click"
    /\ UNCHANGED << request_url, WorldVars, SchedVars, config_reads, HandlerVars, target_url, BrowserVars, LoopVars,
                    ExtractVars, err >>

\* lines 76-77 (generic: 80-82): the selector tried finds nothing
MoreNone ==
    /\ pc = "l_more"
    /\ IF AfterMiss(strategy, candidate) = 0
       THEN LeaveTry
       ELSE /\ pc' = "l_more"
            /\ candidate' = AfterMiss(strategy, candidate)
            /\ UNCHANGED clicks
    /\ UNCHANGED << request_url, WorldVars, SchedVars, config_reads, HandlerVars, target_url, BrowserVars,
                    card_selector, last, same, scroll_count, ExtractVars, err >>

\* await load_more_button.click()
Click ==
    /\ pc = "l_click"
    /\ clicks' = clicks + 1
    /\ pc' = "l_click_sleep"
    /\ UNCHANGED << request_url, WorldVars, SchedVars, config_reads, HandlerVars, target_url, BrowserVars,
                    card_selector, last, same, scroll_count, candidate, ExtractVars, err >>

\* the sleep after the click; the generic loop breaks out of its for loop
ClickSleep ==
    /\ pc = "l_click_sleep"
    /\ IF AfterClick(strategy, candidate) = 0
       THEN LeaveTry
       ELSE /\ pc' = "l_more"
            /\ candidate' = AfterClick(strategy, candidate)
            /\ UNCHANGED clicks
    /\ UNCHANGED << request_url, WorldVars, SchedVars, config_reads, HandlerVars, target_url, BrowserVars,
                    card_selector, last, same, scroll_count, ExtractVars, err >>

\* lines 81-82 (generic: 87-88): an Exception of the probe or the click is
\* logged and dropped
MoreFails ==
    /\ pc \in { "l_more", "l_click" }
    /\ LeaveTry
    /\ UNCHANGED << request_url, WorldVars, SchedVars, config_reads, HandlerVars, target_url, BrowserVars,
                    card_selector, last, same, scroll_count, ExtractVars, err >>

----------------------------------------------------------------------------
(* After the loop *)

\* accupass_scraper.py:94-95
QueryCards ==
    /\ pc = "x_query"
    /\ events' = << >>
    /\ idx' = 0
    /\ pc' = "x_card"
    /\ UNCHANGED << request_url, WorldVars, SchedVars, config_reads, HandlerVars, target_url, BrowserVars, LoopVars,
                    metadata, results, err >>

\* accupass_scraper.py:98-138: the next card, appended or logged and dropped
ExtractCard ==
    /\ pc = "x_card"
    /\ idx < Len(dom)
    /\ events' = AfterCard(site_config, dom, events, idx).events
    /\ idx' = AfterCard(site_config, dom, events, idx).idx
    /\ UNCHANGED << request_url, WorldVars, SchedVars, config_reads, pc, HandlerVars, target_url, BrowserVars,
                    LoopVars, metadata, results, err >>

\* accupass_scraper.py:140: return events
ReturnEvents ==
    /\ pc = "x_card"
    /\ idx >= Len(dom)
    /\ results' = events
    /\ pc' = "s_finally"
    /\ UNCHANGED << request_url, WorldVars, SchedVars, config_reads, HandlerVars, target_url, BrowserVars, LoopVars,
                    events, idx, metadata, err >>

\* generic_scraper.py:100: await page.content()
ReadContent ==
    /\ pc = "g_content"
    /\ pc' = "g_title"
    /\ UNCHANGED << request_url, WorldVars, SchedVars, config_reads, HandlerVars, target_url, BrowserVars, LoopVars,
                    ExtractVars, err >>

\* generic_scraper.py:101-102: await page.title(), page.url
ReadTitle ==
    /\ pc = "g_title"
    /\ pc' = "g_meta"
    /\ UNCHANGED << request_url, WorldVars, SchedVars, config_reads, HandlerVars, target_url, BrowserVars, LoopVars,
                    ExtractVars, err >>

\* generic_scraper.py:126-129: metadata = {}, then
\* await page.query_selector_all('meta')
QueryMetas ==
    /\ pc = "g_meta"
    /\ metadata' = << >>
    /\ idx' = 0
    /\ pc' = "g_tag"
    /\ UNCHANGED << request_url, WorldVars, SchedVars, config_reads, HandlerVars, target_url, BrowserVars, LoopVars,
                    events, results, err >>

\* generic_scraper.py:131-139: the next meta tag, recorded or passed over
ExtractMeta ==
    /\ pc = "g_tag"
    /\ idx < Len(metas)
    /\ metadata' = AfterMeta(metadata, metas[idx + 1])
    /\ idx' = idx + 1
    /\ UNCHANGED << request_url, WorldVars, SchedVars, config_reads, pc, HandlerVars, target_url, BrowserVars,
                    LoopVars, events, results, err >>

\* generic_scraper.py:141 and 107-112: return metadata, then the
\* one-record list
ReturnPage ==
    /\ pc = "g_tag"
    /\ idx >= Len(metas)
    /\ results' = << [ url |-> target_url, title |-> "page title",
                       html |-> "page html", metadata |-> metadata ] >>
    /\ pc' = "s_finally"
    /\ UNCHANGED << request_url, WorldVars, SchedVars, config_reads, HandlerVars, target_url, BrowserVars, LoopVars,
                    events, idx, metadata, err >>

----------------------------------------------------------------------------
(* Failure, cancellation and release *)

\* the awaits of scrape() outside the finally clause
AwaitPoints ==
    { "s_playwright", "s_launch", "s_new_page", "s_viewport", "s_goto", "s_wait",
      "s_settle", "s_probe", "l_scroll", "l_sleep", "l_measure", "l_more",
      "l_click", "l_click_sleep", "x_query", "x_card", "g_content", "g_title",
      "g_meta", "g_tag" }

\* the awaits whose Exception leaves scrape(): not the sleeps, and not the
\* operations inside the try blocks of lines 75-82 and 99-138
FailPoints ==
    { "s_playwright", "s_launch", "s_new_page", "s_viewport", "s_goto", "s_wait",
      "s_probe", "l_scroll", "l_measure", "x_query", "g_content", "g_title",
      "g_meta" }

\* a failed page.goto tried again
OnRaise_retry(at) ==
    IF at = "s_playwright" THEN "h_except"
    ELSE IF at \in { "s_launch", "s_new_page" } THEN "s_pw_exit"
    ELSE IF at = "s_goto" THEN "s_goto"
    ELSE "s_finally"

\* where an exception raised at a position goes: out of the function when
\* the context manager could not be entered, to the exit of the context
\* manager from the two statements before the try (lines 29-30), to the
\* finally clause from inside the try
OnRaise(at) ==
    IF at = "s_playwright" THEN "h_except"
    ELSE IF at \in { "s_launch", "s_new_page" } THEN "s_pw_exit"
    ELSE "s_finally"

\* an awaited browser operation raises
Fail ==
    /\ pc \in FailPoints
    /\ \E type \in ExcTypes : err' = Raised(type, pc)
    /\ gotos' = IF pc = "s_goto" THEN gotos + 1 ELSE gotos
    /\ pc' = OnRaise(pc)
    /\ UNCHANGED << request_url, WorldVars, SchedVars, config_reads, HandlerVars, target_url, playwright, browser, browsers,
                    launches, closeCalls, LoopVars, ExtractVars >>

\* the task is cancelled while it waits (an external deadline)
Cancel ==
    /\ pc \in AwaitPoints
    /\ err' = Cancelled(pc)
    /\ pc' = OnRaise(pc)
    /\ UNCHANGED << request_url, WorldVars, SchedVars, config_reads, HandlerVars, target_url, BrowserVars, LoopVars,
                    ExtractVars >>

\* finally: await browser.close()
CloseBrowser ==
    /\ pc = "s_finally"
    /\ closeCalls' = closeCalls + 1
    /\ browsers' = [ browsers EXCEPT ![browser].state = "closed" ]
    /\ pc' = "s_pw_exit"
    /\ UNCHANGED << request_url, WorldVars, SchedVars, config_reads, HandlerVars,
                    target_url, playwright, browser, launches, gotos, LoopVars,
                    ExtractVars, err >>

\* browser.close() is called and raises, or the task is cancelled in it:
\* the new exception replaces the one in flight
CloseFails ==
    /\ pc = "s_finally"
    /\ closeCalls' = closeCalls + 1
    /\ \E type \in ExcTypes \cup { "CancelledError" } : err' = Raised(type, pc)
    /\ pc' = "s_pw_exit"
    /\ UNCHANGED << request_url, WorldVars, SchedVars, config_reads, HandlerVars, target_url, playwright, browser, browsers,
                    launches, gotos, LoopVars, ExtractVars >>

\* the browsers after a call's playwright context has exited: a browser
\* launched from the context and still open goes down with the context
StopContext(launched, call) ==
    [ h \in DOMAIN launched |->
        IF launched[h].owner = call /\ launched[h].state = "open"
        THEN [ launched[h] EXCEPT !.state = "stopped" ]
        ELSE launched[h] ]

\* the exit of async with: the context is stopped and scrape() returns or
\* raises
StopPlaywright ==
    /\ pc = "s_pw_exit"
    /\ playwright' = "stopped"
    /\ browsers' = StopContext(browsers, me)
    /\ pc' = IF err = NoErr THEN "h_return" ELSE "h_except"
    /\ UNCHANGED << request_url, WorldVars, SchedVars, config_reads, HandlerVars,
                    target_url, browser, launches, closeCalls, gotos, LoopVars,
                    ExtractVars, err >>

----------------------------------------------------------------------------

Next ==
    \/ HandlerLoadConfig
    \/ ConfigLoadFails
    \/ RejectSite
    \/ AcceptSite
    \/ ImportSpecific
    \/ ImportFallback
    \/ NewGeneric
    \/ CallScrape
    \/ RespondSuccess
    \/ RespondError
    \/ PropagateCancel
    \/ GetAvailableSites
    \/ GetAvailableSitesFails
    \/ AccupassEntry
    \/ GenericNoUrl
    \/ GenericEntry
    \/ StartPlaywright
    \/ Launch
    \/ NewPage
    \/ SetViewport
    \/ Goto
    \/ WaitLoad
    \/ Settle
    \/ ProbeCardFound
    \/ ProbeCardNone
    \/ Scroll
    \/ ScrollSleep
    \/ MeasureSame
    \/ MeasureChanged
    \/ MoreFound
    \/ MoreNone
    \/ Click
    \/ ClickSleep
    \/ MoreFails
    \/ QueryCards
    \/ ExtractCard
    \/ ReturnEvents
    \/ ReadContent
    \/ ReadTitle
    \/ QueryMetas
    \/ ExtractMeta
    \/ ReturnPage
    \/ Fail
    \/ Cancel
    \/ CloseBrowser
    \/ CloseFails
    \/ StopPlaywright

Spec == Init /\ [][Next]_vars

----------------------------------------------------------------------------
(* Two scrape calls on one event loop.  Each call is a coroutine: its      *)
(* parameters and locals live in its own frame, and the event loop runs    *)
(* one coroutine at a time, passing from one to the other where the        *)
(* running one awaits.  The variables of the module hold the frame of the  *)
(* running call, `other` holds the frame of the suspended one, and the     *)
(* browsers launched are the only state outside the frames.                *)

\* the frame of the running call: the request it serves, the scraper
\* instance made for it, and the locals of scrape()
Frame ==
    [ req |-> req, request_url |-> request_url, page |-> page, dom |-> dom,
      metas |-> metas, pc |-> pc, available_sites |-> available_sites,
      config_reads |-> config_reads, strategy |-> strategy,
      site_config |-> site_config, called |-> called, target_url |-> target_url,
      playwright |-> playwright, browser |-> browser, launches |-> launches,
      closeCalls |-> closeCalls, gotos |-> gotos, card_selector |-> card_selector,
      last |-> last, same |-> same, scroll_count |-> scroll_count,
      candidate |-> candidate, clicks |-> clicks,
      events |-> events, idx |-> idx, metadata |-> metadata,
      results |-> results, err |-> err,
      resp |-> resp ]

\* the frame of a request at the moment its handler calls scrape()
\* (main.py:204, 287), for a world w = << request, page, DOM >>
CallFrame(w) ==
    LET class == IF w[1].endpoint = "/scrape" THEN Capitalize(w[1].site) \o "Scraper"
                 ELSE "GenericScraper"
    IN  [ req |-> w[1], request_url |-> w[1].url, page |-> w[2], dom |-> w[3],
          metas |-> BaseMetas, pc |-> "s_entry",
          available_sites |-> IF w[1].endpoint = "/scrape"
                              THEN [ loaded |-> TRUE, keys |-> DOMAIN Config.sites ]
                              ELSE [ loaded |-> FALSE, keys |-> {} ],
          config_reads |-> IF w[1].endpoint = "/scrape" THEN 2 ELSE 1,
          strategy |-> class, site_config |-> LoadSiteConfig(class),
          called |-> << class >>, target_url |-> None, playwright |-> "none",
          browser |-> 0, launches |-> 0, closeCalls |-> 0, gotos |-> 0,
          card_selector |-> "", last |-> 0, same |-> 0, scroll_count |-> 0,
          candidate |-> 0, clicks |-> 0,
          events |-> << >>, idx |-> 0, metadata |-> << >>, results |-> << >>,
          err |-> NoErr,
          resp |-> NoResp ]

\* a local kept in one place for all calls: a call resumed sees what the
\* call that ran last left in the browser handle and the loop locals
Resume_shared(name, saved, current) ==
    IF name \in { "browser", "last", "same", "scroll_count" } THEN current
    ELSE saved

\* the record list kept in one place for all calls
Resume_events(name, saved, current) ==
    IF name = "events" THEN current ELSE saved

\* the value a local of scrape() has when its coroutine is resumed: the
\* one it had when the coroutine was suspended
Resume(name, saved, current) == saved

\* scrape() has returned or raised
Returned == { "h_return", "h_except" }

\* the event loop passes from the running call to the suspended one
Switch ==
    /\ other # << >>
    /\ other.pc \notin Returned
    /\ me' = 3 - me
    /\ other' = Frame
    /\ req' = other.req
    /\ request_url' = other.request_url
    /\ page' = other.page
    /\ dom' = other.dom
    /\ metas' = other.metas
    /\ pc' = other.pc
    /\ available_sites' = other.available_sites
    /\ config_reads' = other.config_reads
    /\ strategy' = other.strategy
    /\ site_config' = other.site_config
    /\ called' = other.called
    /\ resp' = other.resp
    /\ launches' = other.launches
    /\ closeCalls' = other.closeCalls
    /\ gotos' = other.gotos
    /\ err' = other.err
    /\ results' = other.results
    /\ target_url' = Resume("target_url", other.target_url, target_url)
    /\ playwright' = Resume("p", other.playwright, playwright)
    /\ browser' = Resume("browser", other.browser, browser)
    /\ card_selector' = Resume("card_selector", other.card_selector, card_selector)
    /\ last' = Resume("last", other.last, last)
    /\ same' = Resume("same", other.same, same)
    /\ scroll_count' = Resume("scroll_count", other.scroll_count, scroll_count)
    /\ candidate' = Resume("candidate", other.candidate, candidate)
    /\ clicks' = Resume("clicks", other.clicks, clicks)
    /\ events' = Resume("events", other.events, events)
    /\ idx' = Resume("idx", other.idx, idx)
    /\ metadata' = Resume("metadata", other.metadata, metadata)
    /\ UNCHANGED browsers

\* a page whose measurement is 0 from the first reading on
ZeroPage == [ script |-> << 0 >>, cyclic |-> FALSE ]

\* a DOM snapshot of three cards, the second of which raises
SnapshotDom ==
    << GoodCard,
       [ has |-> { "l1", "t1", "m1", "o1" }, href |-> << "/", "e" >>, raises |-> "link" ],
       [ has |-> { "l1", "t2" }, href |-> Http \o << "y" >>, raises |-> "none" ] >>

\* the pairs of calls followed: the same card request twice, against the
\* same page and DOM; a card request and a page request, the latter for a
\* page whose first measurement differs from the initial 0
CallPairs ==
    { << << CardRequest, ZeroPage, SnapshotDom >>, << CardRequest, ZeroPage, SnapshotDom >> >>,
      << << CardRequest, ZeroPage, BaseDom >>, << PageRequest, BasePage, BaseDom >> >> }

\* the running call's frame is f
Running(f) ==
    /\ req = f.req
    /\ request_url = f.request_url
    /\ page = f.page
    /\ dom = f.dom
    /\ metas = f.metas
    /\ pc = f.pc
    /\ available_sites = f.available_sites
    /\ config_reads = f.config_reads
    /\ strategy = f.strategy
    /\ site_config = f.site_config
    /\ called = f.called
    /\ target_url = f.target_url
    /\ playwright = f.playwright
    /\ browser = f.browser
    /\ launches = f.launches
    /\ closeCalls = f.closeCalls
    /\ gotos = f.gotos
    /\ card_selector = f.card_selector
    /\ last = f.last
    /\ same = f.same
    /\ scroll_count = f.scroll_count
    /\ candidate = f.candidate
    /\ clicks = f.clicks
    /\ events = f.events
    /\ idx = f.idx
    /\ metadata = f.metadata
    /\ results = f.results
    /\ err = f.err
    /\ resp = f.resp

InitCalls ==
    /\ \E pair \in CallPairs :
          /\ Running(CallFrame(pair[1]))
          /\ other = CallFrame(pair[2])
    /\ browsers = << >>
    /\ me = 1

\* the steps of the two calls: those of scrape(), with failure and
\* cancellation, and the passing of control; the pages served to the two
\* calls have no load-more control, so every selector tried finds nothing
NextCalls ==
    \/ AccupassEntry
    \/ GenericEntry
    \/ StartPlaywright
    \/ Launch
    \/ NewPage
    \/ SetViewport
    \/ Goto
    \/ WaitLoad
    \/ Settle
    \/ ProbeCardFound
    \/ ProbeCardNone
    \/ Scroll
    \/ ScrollSleep
    \/ MeasureSame
    \/ MeasureChanged
    \/ MoreNone
    \/ QueryCards
    \/ ExtractCard
    \/ ReturnEvents
    \/ ReadContent
    \/ ReadTitle
    \/ QueryMetas
    \/ ExtractMeta
    \/ ReturnPage
    \/ Fail
    \/ Cancel
    \/ CloseBrowser
    \/ CloseFails
    \/ StopPlaywright
    \/ Switch

SpecCalls == InitCalls /\ [][NextCalls]_vars

----------------------------------------------------------------------------
(* The metadata of a page.  _extract_metadata is followed over the lists  *)
(* of meta tags, from the state in which a /scrape_url request for a page  *)
(* calls it.                                                               *)

\* the frame of the page request when its loop has exited and the content
\* and the title are read (generic_scraper.py:105), on a page with the meta
\* tags given
MetaFrame(tags) ==
    [ CallFrame(<< PageRequest, BasePage, BaseDom >>) EXCEPT
        !.metas = tags,
        !.pc = "g_meta",
        !.site_config = EmptyDict,
        !.target_url = PageRequest.url,
        !.playwright = "started",
        !.browser = 1,
        !.launches = 1,
        !.gotos = 1,
        !.last = Measure(BasePage, 1),
        !.same = max_consecutive_same,
        !.scroll_count = IterationsToExit(BasePage, 0, InitialLast, 0) ]

InitMeta ==
    /\ \E tags \in MetaLists : Running(MetaFrame(tags))
    /\ browsers = << [ owner |-> 1, state |-> "open" ] >>
    /\ me = 1
    /\ other = << >>

NextMeta ==
    \/ QueryMetas
    \/ ExtractMeta
    \/ ReturnPage

SpecMeta == InitMeta /\ [][NextMeta]_vars

----------------------------------------------------------------------------
(* Properties of the scroll loop *)

\* the loop has just broken out (lines 84-86; generic 90-92)
LoopExited == pc \in { "x_query", "g_content" }

\* the loop is about to scroll or has scrolled and not yet measured
LoopGoesOn == pc \in { "l_sleep", "l_measure" }

\* the i-th measurement of this run; before the first one, the initial 0
Reading(i) == IF i = 0 THEN 0 ELSE Measure(page, i)

\* the five readings up to the j-th each equal the reading before them
Stable(j) ==
    /\ j >= max_consecutive_same
    /\ \A i \in (j - max_consecutive_same + 1)..j : Reading(i) = Reading(i - 1)

\* C1 as stated: on the readings 5,9,9,9,9,12,12,12,12,12 the loop exits on
\* the tenth measurement (the fifth 12), not before, and no eleventh scroll
\* is performed
C1_ExitsOnTenthReading ==
    page.script = PlateauScript =>
        /\ LoopExited => scroll_count = 10
        /\ LoopGoesOn => scroll_count < 10

\* C1 amended: on the readings 5,9,9,9,9,12,12,12,12,12 followed by a sixth
\* 12 the loop is still running after the tenth measurement, with the
\* counter at 4; it exits on the eleventh measurement, not before, and no
\* twelfth scroll is performed
C1_ExitsOnEleventhReading ==
    (page.script = PlateauScript /\ ~page.cyclic) =>
        /\ LoopExited => scroll_count = 11
        /\ LoopGoesOn => scroll_count < 11
        /\ (scroll_count = 10 /\ pc \in { "l_more", "l_click", "l_click_sleep" })
              => same = 4

C1_Witness ==
    /\ page.script = PlateauScript
    /\ ~page.cyclic
    /\ pc = "g_content"
    /\ scroll_count = 11

\* every reading of the page is the same constant
IsConstant(pg) == \A i \in 1..Len(pg.script) : pg.script[i] = pg.script[1]

\* C5 as stated: on a page of constant measurement c the loop exits with 5
\* unchanged readings counted, after a number of iterations that is the
\* same for every c, c = 0 included: the number it takes for c = 1
C5_SameIterationsForEveryConstant ==
    (IsConstant(page) /\ LoopExited) =>
        /\ same >= 5
        /\ scroll_count =
              IterationsToExit([ script |-> << 1 >>, cyclic |-> FALSE ], 0,
                               InitialLast, 0)

\* C5 amended: on a page of constant measurement c the loop exits with 5
\* unchanged readings counted, after 6 iterations when c > 0 and after 5
\* iterations when c = 0
C5_IterationsOfConstantPage ==
    (IsConstant(page) /\ LoopExited) =>
        /\ same = 5
        /\ scroll_count = IF page.script[1] = 0 THEN 5 ELSE 6

C5_Witness ==
    /\ IsConstant(page)
    /\ page.script[1] = 0
    /\ LoopExited
    /\ scroll_count = 5

\* every window of 5 readings read so far holds a change
EveryWindowChanges ==
    \A j \in 5..scroll_count : \E i \in (j - 3)..j : Reading(i) # Reading(i - 1)

\* C6: the loop exits exactly at the first iteration whose reading and the
\* four before it each equal the reading before them, at whatever scroll
\* count that happens; while every window of 5 readings holds a change the
\* loop has not exited
C6_ExitIffFiveUnchanged ==
    /\ LoopExited => Stable(scroll_count)
    /\ \A j \in 1..(scroll_count - 1) : ~Stable(j)
    /\ (pc = "l_scroll" \/ LoopGoesOn) => ~Stable(scroll_count)
    /\ EveryWindowChanges => ~LoopExited

C6_Witness ==
    /\ scroll_count = MaxScroll
    /\ pc = "l_scroll"
    /\ EveryWindowChanges

----------------------------------------------------------------------------
(* Properties of the scrape call *)

\* scrape() has returned or raised
CallOver == pc \in { "h_return", "h_except", "done" } /\ called # << >>

\* C2: once the browser has been launched, every exit path of the scrape
\* call, a failure of new_page and a cancellation included, has called
\* browser.close() exactly once when the call returns or raises
C2_ClosedExactlyOnce ==
    (CallOver /\ launches > 0) => closeCalls = 1

RecordFields == { "link", "title", "time", "location" }

\* what a candidate selector that finds an element yields for a field: the
\* text of the element, and for the link its href made absolute
CandidateValue(cfg, field, selector, card) ==
    IF field = "link"
    THEN IF Truthy(card.href) /\ ~StartsWith(card.href, << "h", "t", "t", "p" >>)
         THEN get_base_url(cfg) \o card.href
         ELSE card.href
    ELSE Text(selector)

\* C3: for each of the four fields the value of the record is that of the
\* first candidate of the field's chain that finds an element in the card
\* (here: a card whose link element carries a non-empty href)
C3_FirstMatchingCandidate ==
    (pc = "x_card" /\ Len(dom) = 1 /\ idx = 1 /\ Len(events) = 1
        /\ Truthy(dom[1].href)) =>
        \A field \in RecordFields :
            LET chain == get_selector(site_config, field)
                first == FirstMatch(chain, dom[1])
            IN  first # 0 =>
                   events[1][field] =
                       CandidateValue(site_config, field, chain[first], dom[1])

RECURSIVE ExpectedRecords(_, _)
\* one record for each card that does not raise, in the cards' order
ExpectedRecords(cfg, cards) ==
    IF cards = << >> THEN << >>
    ELSE IF CardRaises(cfg, Head(cards)) THEN ExpectedRecords(cfg, Tail(cards))
    ELSE << ExtractRecord(cfg, Head(cards)) >> \o ExpectedRecords(cfg, Tail(cards))

\* C4: a card whose extraction raises is left out and nothing else is: the
\* records gathered are those of the cards gone through that do not raise,
\* in order; no exception of a card ends the call; the list returned holds
\* one record for each card that does not raise
C4_FailureIsolation ==
    /\ pc = "x_card" =>
          /\ err = NoErr
          /\ events = ExpectedRecords(site_config, SubSeq(dom, 1, idx))
    /\ \A type \in ExcTypes \cup { "Exception", "IndexError" } :
          err # Raised(type, "x_card")
    /\ (pc = "done" /\ resp.code = 200 /\ strategy = "AccupassScraper") =>
          resp.data = ExpectedRecords(site_config, dom)

C4_Witness ==
    /\ Len(dom) = 3
    /\ ~CardRaises(site_config, dom[1])
    /\ CardRaises(site_config, dom[2])
    /\ ~CardRaises(site_config, dom[3])
    /\ pc = "done"
    /\ resp.code = 200
    /\ Len(resp.data) = 2

----------------------------------------------------------------------------
(* Properties of the dispatch *)

\* a /scrape request for a registered site without an extraction module
NoModuleRequest ==
    /\ req.endpoint = "/scrape"
    /\ req.site \in DOMAIN Config.sites
    /\ ~ImportOK(req.site)

\* base_url followed by search_path, from the site's entry
EntryUrl(site) ==
    Get(Config.sites[site], "base_url", << >>)
        \o Get(Config.sites[site], "search_path", << >>)

\* C7 as stated: such a request is served by the generic strategy, called
\* with base_url followed by search_path when the request carries no url
\* and with the request's url otherwise
C7_GenericFallbackUrl ==
    (NoModuleRequest /\ pc = "s_entry") =>
        /\ called = << "GenericScraper" >>
        /\ req.url = None => request_url = EntryUrl(req.site)
        /\ Truthy(req.url) => request_url = req.url

\* C7 amended: such a request is served by the generic strategy; when the
\* request carries no url (none, or an empty one) and the site's entry has
\* a non-empty base_url it is called with base_url followed by search_path;
\* when the entry has no base_url, or the request carries a url, it is
\* called with the url as the request gave it
C7_GenericFallbackUrlWithBase ==
    (NoModuleRequest /\ pc = "s_entry") =>
        /\ called = << "GenericScraper" >>
        /\ request_url =
              IF ~Truthy(req.url) /\ Get(Config.sites[req.site], "base_url", << >>) # << >>
              THEN EntryUrl(req.site)
              ELSE req.url

C7_Witness ==
    /\ req.site = "kktix"
    /\ req.url = None
    /\ pc = "s_playwright"
    /\ strategy = "GenericScraper"
    /\ target_url = Http \o << "k", "/", "e" >>

\* C8: at most one scrape() is invoked per request, it is that of the
\* strategy chosen, and the choice precedes every use of the browser and is
\* never changed by a failure of the scrape
C8_OneStrategyPerRequest ==
    /\ Len(called) <= 1
    /\ called # << >> => called = << strategy >>
    /\ (playwright # "none" \/ launches > 0 \/ gotos > 0) => called = << strategy >>

C8_Witness ==
    /\ pc = "done"
    /\ req.site = "accupass"
    /\ called = << "AccupassScraper" >>
    /\ err.type = "ImportError"
    /\ launches = 1
    /\ resp.code = 500

\* C9: a site that is not in the registry is answered 400 with no scraper
\* invoked and no browser launched; an Exception raised by scrape() is
\* answered 500 with status "error", the exception's text and no data; a
\* 200 of /scrape or /scrape_url has status "success"
C9_StatusCodes ==
    /\ (available_sites.loaded /\ req.site \notin available_sites.keys) =>
          /\ pc \in { "h_check", "done" }
          /\ pc = "done" => resp.code = 400
          /\ called = << >> /\ playwright = "none" /\ launches = 0
    /\ resp.code = 400 => req.site \notin DOMAIN Config.sites
    /\ (pc = "done" /\ called # << >> /\ err.type \notin { "none", "CancelledError" }) =>
          resp = [ code |-> 500, status |-> "error", message |-> err.msg,
                   data |-> << >> ]
    /\ (resp.code = 200 /\ req.endpoint # "/sites") => resp.status = "success"

C9_Witness ==
    /\ pc = "done"
    /\ called # << >>
    /\ err.type = "TimeoutError"
    /\ resp.code = 500
    /\ resp.message = "TimeoutError at s_goto"

\* C10: a request that maps to no url fails before any browser is launched
\* and is answered with a client error (4xx)
C10_UnresolvedIsClientError ==
    (pc = "done" /\ err.type = "ValueError") =>
        /\ launches = 0 /\ playwright = "none"
        /\ resp.code \in 400..499

----------------------------------------------------------------------------
(* Properties of the card probe and of the records *)

\* the positions of a scrape call after its try block has been left
AfterTry == { "s_finally", "s_pw_exit", "h_except", "h_return", "done" }

\* C11: when no card selector finds an element, the scrape call fails with
\* an error: it goes from the probe straight to the release of the browser,
\* with no scroll, no measurement and no extraction, browser.close() is
\* called, and the request is never answered 200; a list (an empty one
\* included) is returned only after a card selector matched at the probe
C11_NoCardSelectorIsFatal ==
    /\ card_selector = "None" =>
          /\ pc \in AfterTry \ { "h_return" }
          /\ err # NoErr
          /\ scroll_count = 0 /\ same = 0
          /\ idx = 0 /\ events = << >> /\ results = << >>
          /\ resp.code \in { 0, 500 }
          /\ pc \in { "s_pw_exit", "h_except", "done" } => closeCalls = 1
          /\ (pc \in { "s_pw_exit", "h_except", "done" }
                 /\ err = NoCardSelector.err) => browsers[browser].state = "closed"
    /\ (strategy = "AccupassScraper" /\ (pc = "h_return" \/ resp.code = 200)) =>
          \E i \in 1..Len(get_selector(site_config, "card")) :
              card_selector = get_selector(site_config, "card")[i]

C11_Witness ==
    /\ pc = "done"
    /\ card_selector = "None"
    /\ resp.code = 500
    /\ resp.message = "cannot find the event cards"
    /\ closeCalls = 1
    /\ browsers[browser].state = "closed"

\* the fields that take a sentinel, and the sentinel of each
SentinelFields == { "title", "time", "location" }

Sentinel(field) == "unknown " \o field

\* the card with an element added for the first selector of a field's chain
WithField(cfg, card, field) ==
    [ card EXCEPT !.has = @ \cup { get_selector(cfg, field)[1] } ]

\* C12: a card that lacks every element of the title, time or location
\* chain still yields a record; the field is its sentinel and the three
\* other fields are what they are for the same card with the element
\* present; a card in which no link selector matches has the link ''
C12_MissingFieldSentinel ==
    (pc = "x_card" /\ Len(dom) = 1 /\ idx = 1 /\ dom[1].raises = "none") =>
        /\ Len(events) = 1
        /\ \A field \in SentinelFields :
              FirstMatch(get_selector(site_config, field), dom[1]) = 0 =>
                  /\ events[1][field] = Sentinel(field)
                  /\ \A rest \in RecordFields \ { field } :
                        events[1][rest] =
                            ExtractRecord(site_config,
                                          WithField(site_config, dom[1], field))[rest]
        /\ FirstMatch(get_selector(site_config, "link"), dom[1]) = 0 =>
              events[1].link = << >>

C12_Witness ==
    /\ pc = "x_card" /\ Len(dom) = 1 /\ idx = 1
    /\ dom[1].has = { "l1", "t1", "m1" }
    /\ dom[1].href = << "/", "e" >>
    /\ Len(events) = 1
    /\ events[1].location = "unknown location"
    /\ events[1].title = "text of t1"
    /\ events[1].link = Http \o << "a", "/", "e" >>

\* C13: for a card whose link element is found, the link of the record is
\* the href unchanged when it starts with a URL scheme, base_url followed
\* by the href when it does not, and the empty string, never prefixed,
\* when the href is empty or absent
C13_LinkAbsolutization ==
    (pc = "x_card" /\ Len(dom) = 1 /\ idx = 1 /\ Len(events) = 1
        /\ get_selector(site_config, "link")[1] \in dom[1].has) =>
        events[1].link =
            IF ~Truthy(dom[1].href) THEN << >>
            ELSE IF AfterScheme(dom[1].href) # 0 THEN dom[1].href
            ELSE get_base_url(site_config) \o dom[1].href

----------------------------------------------------------------------------
(* Properties of the configuration *)

\* C14: the site configuration of a scraper instance is never modified
\* after it is loaded: whatever build_url calls the instance has made, with
\* or without caller params, site_config (default_params in particular) is
\* what the constructor read
C14_SiteConfigNeverModified ==
    strategy # "none" => site_config = LoadSiteConfig(strategy)

\* C15: the configuration is read once, when the process starts: a request
\* being served never opens the configuration source, and none fails
\* because the source is missing or malformed
C15_ConfigLoadedOnceAtStart ==
    /\ config_reads = 0
    /\ err # ConfigError

----------------------------------------------------------------------------
(* Properties of concurrent calls, under SpecCalls *)

\* the call that is not running
OtherCall == 3 - me

\* the positions at which a call's next step operates on its page
PageOps ==
    { "s_viewport", "s_goto", "s_wait", "s_probe", "l_scroll", "l_measure",
      "l_more", "l_click", "x_query", "x_card", "g_content", "g_title", "g_meta",
      "g_tag" }

\* a call about to operate on its page holds a browser it launched itself,
\* and that browser is open
OwnOpenBrowser(f, call) ==
    f.pc \in PageOps =>
        /\ f.browser \in DOMAIN browsers
        /\ browsers[f.browser].owner = call
        /\ browsers[f.browser].state = "open"

\* the loop state of a frame
LoopState(f) == << f.last, f.same, f.scroll_count >>

\* C16, in states: each of two concurrent calls launches its own browser,
\* distinct from the other's, and operates only on pages of that browser
\* while it is open; once both calls have returned or raised no browser is
\* open
CallsOwnTheirBrowsers ==
    /\ OwnOpenBrowser(Frame, me)
    /\ OwnOpenBrowser(other, OtherCall)
    /\ launches <= 1 /\ other.launches <= 1
    /\ Len(browsers) = launches + other.launches
    /\ (browser # 0 /\ other.browser # 0) => browser # other.browser
    /\ (pc \in Returned /\ other.pc \in Returned) =>
          \A h \in DOMAIN browsers : browsers[h].state # "open"

\* C16, in steps: a step of the running call leaves the frame of the
\* suspended call and every browser the suspended call launched as they
\* are (closing one's browser leaves the other's open); a call that is
\* resumed finds the loop state it was suspended with
CallsDoNotInterfere ==
    /\ me' = me =>
          /\ other' = other
          /\ \A h \in DOMAIN browsers :
                browsers[h].owner # me => browsers'[h] = browsers[h]
    /\ me' # me =>
          /\ << last', same', scroll_count' >> = LoopState(other)
          /\ LoopState(other') = << last, same, scroll_count >>
          /\ browsers' = browsers

\* C16: for every interleaving of two concurrent scrape calls, each call
\* launches its own browser and operates only on it; the loop state of a
\* call is neither read nor written by the other; closing one call's
\* browser leaves the other's open; when both have finished no browser
\* is open
C16_CallsAreIndependent ==
    []CallsOwnTheirBrowsers /\ [][CallsDoNotInterfere]_vars

C16_Witness ==
    /\ other # << >>
    /\ other.pc = "h_return"
    /\ browsers[other.browser].state = "closed"
    /\ pc = "l_measure"
    /\ browsers[browser].state = "open"
    /\ browser # other.browser
    /\ scroll_count = 2
    /\ other.scroll_count = 5

\* both calls are card extractions against the same DOM snapshot with the
\* same selector configuration
SameSnapshot ==
    /\ other # << >>
    /\ strategy = "AccupassScraper" /\ other.strategy = "AccupassScraper"
    /\ dom = other.dom
    /\ Get(site_config, "selectors", EmptyDict)
          = Get(other.site_config, "selectors", EmptyDict)
    /\ get_base_url(site_config) = get_base_url(other.site_config)

----------------------------------------------------------------------------
(* Properties of the loop's counter *)

RECURSIVE RunLength(_)
\* the number of most recent consecutive iterations, up to the n-th, whose
\* measurement equalled that of the iteration before
RunLength(n) ==
    IF n = 0 THEN 0
    ELSE IF Reading(n) = Reading(n - 1) THEN 1 + RunLength(n - 1)
    ELSE 0

\* the positions inside the while loop
InLoop ==
    pc \in { "l_scroll", "l_sleep", "l_measure", "l_more", "l_click", "l_click_sleep" }

\* C18: in the loop the counter is between 0 and 5 and equals the number of
\* most recent consecutive iterations whose measurement equalled the one
\* before (0 before the first), so a differing reading, smaller or greater,
\* makes it 0; the loop goes on to another scroll only with the counter
\* below 5 and has exited only with the counter at 5
C18_CounterIsRunLength ==
    /\ (InLoop \/ LoopExited) =>
          /\ same \in 0..max_consecutive_same
          /\ same = RunLength(scroll_count)
    /\ pc \in { "l_scroll", "l_sleep", "l_measure" } => same < max_consecutive_same
    /\ LoopExited => same = max_consecutive_same

C18_Witness ==
    /\ pc = "l_scroll"
    /\ scroll_count = 3
    /\ Reading(1) = 2 /\ Reading(2) = 2 /\ Reading(3) = 1
    /\ same = 0

\* C19: an iteration whose measurement is greater than that of the
\* iteration before sets the counter to 0, records the measurement as the
\* last one and goes on to the next scroll, without a load-more probe and
\* without leaving the loop
C19_GrowthResets ==
    [][ ( /\ pc = "l_measure"
          /\ scroll_count' = scroll_count + 1
          /\ Measure(page, scroll_count + 1) > Reading(scroll_count) ) =>
            /\ same' = 0
            /\ last' = Measure(page, scroll_count + 1)
            /\ pc' = "l_scroll" ]_vars

C19_Witness ==
    /\ pc = "l_scroll"
    /\ scroll_count = 3
    /\ Reading(1) = 1 /\ Reading(2) = 1 /\ Reading(3) = 2
    /\ same = 0
    /\ last = 2

\* the positions inside the try block of the unchanged branch
InTry == pc \in { "l_more", "l_click", "l_click_sleep" }

\* between two measurements at most one click() call has returned
AtMostOneClick ==
    /\ (InLoop \/ LoopExited) => clicks \in 0..1
    /\ pc = "l_click" => clicks = 0
    /\ pc = "l_click_sleep" => clicks = 1

\* one step of an iteration whose measurement equals the previous one
UnchangedIterationStep ==
    \* the counter goes up by 1 and the first selector is tried, before any
    \* threshold test
    /\ ( /\ pc = "l_measure"
         /\ scroll_count' = scroll_count + 1
         /\ Measure(page, scroll_count + 1) = Reading(scroll_count) ) =>
           /\ same' = same + 1
           /\ pc' = "l_more"
           /\ candidate' = 1
    \* the loop is left from the try block only: the probe came first
    /\ (~LoopExited /\ LoopExited') => InTry
    \* the selectors are tried in the order of the list, and the control
    \* clicked is the one the tried selector found
    /\ (pc = "l_more" /\ pc' = "l_more") => candidate' = candidate + 1
    /\ (pc = "l_more" /\ pc' = "l_click") => candidate' = candidate
    /\ (pc = "l_click" /\ pc' = "l_click_sleep") => candidate' = candidate
    \* nothing is tried after a click
    /\ (pc = "l_click_sleep" /\ err' = NoErr) => ~InTry'
    \* whatever the probe and the click do, an Exception of theirs included,
    \* the counter stays and the loop goes on to its threshold test
    /\ InTry => same' = same
    /\ (InTry /\ ~InTry' /\ err' = NoErr) =>
           IF same = max_consecutive_same THEN LoopExited' ELSE pc' = "l_scroll"
    /\ (pc = "l_click" /\ pc' # "l_click_sleep") =>
           \/ err' = NoErr
           \/ err'.type = "CancelledError"
    \* growth measured after a click makes the counter 0
    /\ ( /\ pc = "l_measure"
         /\ clicks = 1
         /\ scroll_count' = scroll_count + 1
         /\ Measure(page, scroll_count + 1) > Reading(scroll_count) ) =>
           same' = 0

\* C20: an iteration whose measurement equals the previous one adds exactly
\* 1 to the counter and tries the load-more selectors before the threshold
\* test, on the iteration that leaves the loop as well; at most one control
\* is clicked in an iteration, the one found by the first selector of the
\* list that finds any; an Exception of the probe or the click changes
\* neither the counter nor the course of the loop or of the call; growth
\* measured after a click makes the counter 0
C20_UnchangedIteration ==
    []AtMostOneClick /\ [][UnchangedIterationStep]_vars

C20_Witness ==
    /\ pc = "l_click_sleep"
    /\ strategy = "GenericScraper"
    /\ candidate = 3
    /\ clicks = 1
    /\ same = max_consecutive_same

----------------------------------------------------------------------------
(* No retry *)

\* the exception in flight is the one page.goto raised
NavigationFailed == \E type \in ExcTypes : err = Raised(type, "s_goto")

\* C21: nothing is tried again: with a retry count of 3 configured, one
\* request invokes scrape() at most once, and the call launches at most one
\* browser and calls page.goto at most once; when page.goto raises, the call
\* goes to the finally clause, closes the browser and ends with the error,
\* which the handler answers with 500
C21_NoAutomaticRetry ==
    /\ get_retry_count(Config) > 1
    /\ Len(called) <= 1
    /\ launches <= 1
    /\ gotos <= 1
    /\ NavigationFailed =>
          /\ pc \in AfterTry
          /\ gotos = 1
          /\ results = << >>
          /\ pc # "s_finally" =>
                /\ closeCalls = 1
                /\ browsers[browser].state = "closed"
          /\ resp # NoResp => resp.code = 500

C21_Witness ==
    /\ NavigationFailed
    /\ resp # NoResp
    /\ Len(called) = 1
    /\ launches = 1
    /\ gotos = 1
    /\ closeCalls = 1

----------------------------------------------------------------------------
(* Generic metadata *)

\* the key of a meta tag: its name attribute when that is not empty,
\* otherwise its property attribute
KeyOf(tag) ==
    IF tag.name # None /\ tag.name # << >> THEN tag.name ELSE tag.property

\* the tag contributes: no read of its attributes raises, and its key and
\* its content are both non-empty
Contributes(tag) ==
    /\ ~MetaRaises(tag)
    /\ KeyOf(tag) \notin { None, << >> }
    /\ tag.content \notin { None, << >> }

\* md holds, for each key of a contributing tag among the first n, the
\* content of the last such tag with that key, and nothing else
LastWins(md, n) ==
    LET contributing == { i \in 1..n : Contributes(metas[i]) }
        keys == { KeyOf(metas[i]) : i \in contributing }
        lastOf(k) == CHOOSE i \in contributing :
                        /\ KeyOf(metas[i]) = k
                        /\ \A j \in contributing : KeyOf(metas[j]) = k => j <= i
    IN  /\ { md[j][1] : j \in 1..Len(md) } = keys
        /\ Len(md) = Cardinality(keys)
        /\ \A j \in 1..Len(md) : md[j][2] = metas[lastOf(md[j][1])].content

\* C22: the metadata of a page, over its meta tags in document order: a
\* tag's key is its name attribute when that is non-empty, otherwise its
\* property attribute; a tag counts only when key and content are both
\* non-empty; each key has the content of the last tag that counts with
\* that key, whether the key came from name or from property; a tag whose
\* attribute read raises is passed over and the tags after it are still
\* read
C22_MetadataLastWins ==
    /\ pc = "g_tag" => LastWins(metadata, idx)
    /\ (strategy = "GenericScraper" /\ results # << >>) =>
          /\ Len(results) = 1
          /\ idx = Len(metas)
          /\ LastWins(results[1].metadata, Len(metas))

C22_Witness ==
    /\ results # << >>
    /\ Len(metas) = 3
    /\ metas[1].name = << "a" >> /\ metas[1].content = << "x" >>
    /\ metas[1].raises = "none"
    /\ metas[2].raises = "content"
    /\ metas[3].name = << >> /\ metas[3].property = << "a" >>
    /\ metas[3].content = << "y" >>
    /\ results[1].metadata = << << << "a" >>, << "y" >> >> >>

----------------------------------------------------------------------------
(* The navigation target *)

\* the default parameters with the value of each key the request also
\* gives replaced by the request's, then the request's other parameters
Overridden(defaults, params) ==
    LET given(k) == { j \in 1..Len(params) : params[j][1] = k }
        value(kv) == IF given(kv[1]) = {} THEN kv[2]
                     ELSE params[CHOOSE j \in given(kv[1]) :
                                   \A h \in given(kv[1]) : h <= j][2]
        isNew(kv) == \A i \in 1..Len(defaults) : defaults[i][1] # kv[1]
    IN  [ i \in 1..Len(defaults) |-> << defaults[i][1], value(defaults[i]) >> ]
        \o SelectSeq(params, isNew)

\* the url followed by the parameters as a query string, when there are any
WithQuery(url, sep, params) ==
    IF params = << >> THEN url ELSE url \o sep \o urlencode(params)

\* the params of the request as a dict, None being no parameters
GivenParams == IF req.params = NoneDict THEN << >> ELSE req.params

\* C23: the site-specific strategy goes to the caller's url as it is when
\* one is given, the params of the request and the default params of the
\* site left out; without a url it goes to base_url and search_path with
\* the default params, each overridden by the request's param of the same
\* key.  The generic strategy appends the params, when there are any, to
\* the url it is called with: after '&' when the url has a '?', after '?'
\* otherwise
C23_NavigationTarget ==
    /\ (strategy = "AccupassScraper" /\ target_url # None) =>
          IF req.url # None /\ req.url # << >>
          THEN target_url = req.url
          ELSE target_url =
                 WithQuery(Sites.accupass.base_url \o Sites.accupass.search_path,
                           << "?" >>,
                           Overridden(Sites.accupass.default_params, GivenParams))
    /\ (strategy = "GenericScraper" /\ target_url # None) =>
          target_url =
            WithQuery(request_url,
                      IF \E i \in 1..Len(request_url) : request_url[i] = "?"
                      THEN << "&" >> ELSE << "?" >>,
                      GivenParams)

C23_Witness ==
    /\ strategy = "AccupassScraper"
    /\ req.url = << >>
    /\ req.params = << << << "p" >>, << "x" >> >> >>
    /\ target_url = Http \o << "a", "/", "s", "?", "p", "=", "x" >>
    /\ gotos = 1

----------------------------------------------------------------------------
(* The order of the steps of a call *)

\* the positions of the extraction: the cards, or the content, the title
\* and the metadata of the page
Extracting == pc \in { "x_query", "x_card", "g_content", "g_title", "g_meta", "g_tag" }

\* the card selectors of the site, as a set
CardSelectors ==
    { get_selector(site_config, "card")[i] :
        i \in 1..Len(get_selector(site_config, "card")) }

StepsInOrder ==
    \* the probe and the loop come after page.goto has returned
    /\ (pc = "s_probe" \/ InLoop) => (gotos = 1 /\ err = NoErr)
    \* the site-specific loop and extraction run with a selector that matched
    /\ (strategy = "AccupassScraper" /\ (InLoop \/ Extracting)) =>
          card_selector \in CardSelectors
    \* the loop has not begun at the probe
    /\ pc = "s_probe" => scroll_count = 0
    \* the extraction comes after the loop has exited
    /\ Extracting =>
          /\ same = max_consecutive_same
          /\ scroll_count >= max_consecutive_same
          /\ gotos = 1
    /\ (events # << >> \/ idx > 0 \/ metadata # << >> \/ results # << >>) =>
          same = max_consecutive_same
    \* a page operation is issued on a browser that is open
    /\ pc \in PageOps => (browser # 0 /\ browsers[browser].state = "open")
    /\ closeCalls > 0 => (pc \notin PageOps /\ ~InLoop /\ ~Extracting)

\* the selector the loop measures with is the one the extraction queries
SelectorKept ==
    (InLoop \/ Extracting) => card_selector' = card_selector

\* C24: the steps of a call come in one order: the probe for a card
\* selector and the scrolls after page.goto has returned; in the
\* site-specific strategy the loop after a card selector has matched, and
\* that selector unchanged through the loop and the extraction; the
\* extraction after the loop has exited; no operation on the page once
\* browser.close() has been called
C24_StepsInOrder ==
    []StepsInOrder /\ [][SelectorKept]_vars

C24_Witness ==
    /\ pc = "s_pw_exit"
    /\ strategy = "AccupassScraper"
    /\ card_selector = "c2"
    /\ results # << >>
    /\ browsers[browser].state = "closed"
    /\ gotos = 1
    /\ same = max_consecutive_same

====
